---- MODULE Spec2Model ----
(***************************************************************************)
(* Model of the preference dashboard of src/frontend/web/src/App.tsx: the  *)
(* App component's state, its asynchronous handlers (loadPreferences,      *)
(* submitPreference, activatePreference, deactivatePreference), the wallet *)
(* callbacks and the derived views, over the key-value store of the        *)
(* contract (getData / setData).  Every "await" of a handler is a point    *)
(* where other handlers, of the same page or of another page that uses the *)
(* same contract, may run.                                                 *)
(*                                                                         *)
(* Strings are sequences of one-character strings so that toLowerCase and  *)
(* includes are computed, not assumed.                                     *)
(***************************************************************************)
EXTENDS Integers, Sequences, FiniteSets, TLC

(* ---------------------------------------------------------------------- *)
(* Bounds of the model                                                     *)
(* ---------------------------------------------------------------------- *)

\* user-initiated operations (refresh, submit, activate, deactivate) per behaviour
MaxOps == 3

\* calls of the contract or of the wallet provider that fail per behaviour
MaxFaults == 1

\* wallet events (select, disconnect, accountsChanged) per behaviour
MaxWallet == 2

\* longest key index and longest in-memory list drawn for the initial states of
\* the load and view specifications
MaxKeys == 2

\* pages (App instances) that share the contract
Clients == {"c1", "c2"}

\* addresses a wallet can report: "A" and "a" are one address in two spellings
Accounts == {<<"A">>, <<"a">>, <<"B">>}

\* identifiers `${Date.now()}-${random}` (App.tsx:169): the clock's reading,
\* then the random suffix
Ids == {<<"1", "x">>, <<"2", "y">>}

\* timestamps a stored record can carry
Times == {1, 2}

\* Math.floor(Date.now() / 1000) (App.tsx:173), taken in the same turn as the
\* identifier and so from the same reading of the clock
TimeOf(id) == IF id[1] = "1" THEN 1 ELSE 2

\* categories the create form offers (App.tsx:717-722)
Categories == {<<"T", "h">>, <<"L">>}

\* the category the form holds when Submit is clicked
FormCategories == {<<"T", "h">>}

Statuses == {"pending", "active", "inactive"}

(* ---------------------------------------------------------------------- *)
(* Strings                                                                 *)
(* ---------------------------------------------------------------------- *)

EmptyString == <<>>

\* String.prototype.toLowerCase, character by character
LowerChar(ch) ==
  CASE ch = "A" -> "a"
    [] ch = "B" -> "b"
    [] ch = "E" -> "e"
    [] ch = "F" -> "f"
    [] ch = "H" -> "h"
    [] ch = "L" -> "l"
    [] ch = "T" -> "t"
    [] ch = "X" -> "x"
    [] ch = "Y" -> "y"
    [] OTHER -> ch

toLowerCase(s) == [i \in 1..Len(s) |-> LowerChar(s[i])]

\* does s have needle at position pos (1-based)
RECURSIVE MatchAt(_, _, _, _)
MatchAt(s, needle, pos, k) ==
  IF k > Len(needle) THEN TRUE
  ELSE IF pos + k - 1 > Len(s) THEN FALSE
  ELSE IF s[pos + k - 1] # needle[k] THEN FALSE
  ELSE MatchAt(s, needle, pos, k + 1)

\* String.prototype.includes: scan the start positions from the left
RECURSIVE IncludesFrom(_, _, _)
IncludesFrom(s, needle, pos) ==
  IF pos + Len(needle) - 1 > Len(s) THEN FALSE
  ELSE IF MatchAt(s, needle, pos, 1) THEN TRUE
  ELSE IncludesFrom(s, needle, pos + 1)

includes(s, needle) == IncludesFrom(s, needle, 1)

(* ---------------------------------------------------------------------- *)
(* Blobs of the key-value store                                            *)
(* ---------------------------------------------------------------------- *)

\* a record blob's JSON object {data, timestamp, owner, category, status};
\* status "none" is an object without a status field
NoRecord == [data |-> EmptyString, timestamp |-> 0, owner |-> EmptyString,
             category |-> EmptyString, status |-> "none"]

\* bytes of length 0: what getData returns for a key never written
EmptyRecBlob == [kind |-> "empty", val |-> NoRecord]
\* bytes that JSON.parse rejects
CorruptRecBlob == [kind |-> "corrupt", val |-> NoRecord]
\* ethers.toUtf8Bytes(JSON.stringify(obj))
RecBlob(obj) == [kind |-> "json", val |-> obj]

EmptyKeysBlob == [kind |-> "empty", val |-> <<>>]
CorruptKeysBlob == [kind |-> "corrupt", val |-> <<>>]
KeysBlob(keys) == [kind |-> "json", val |-> keys]

\* "let keys = []; if (keysBytes.length > 0) try { keys = JSON.parse(...) } catch {}"
ParseKeys(blob) == IF blob.kind = "json" THEN blob.val ELSE <<>>

\* the simulated encryption `FHE-${btoa(JSON.stringify(newPreferenceData))}`
EncryptForm(category) == <<"F", "H", "E", "-">> \o category

(* ---------------------------------------------------------------------- *)
(* State                                                                   *)
(* ---------------------------------------------------------------------- *)

VARIABLES
  store,              \* the contract: [keys |-> blob, recs |-> [Ids -> blob]]
  account,            \* per page: useState("") account
  provider,           \* per page: provider # null
  listening,          \* per page: the accountsChanged listener is registered
  loading,            \* per page: useState(true) loading
  isRefreshing,       \* per page
  creating,           \* per page
  preferences,        \* per page: the in-memory list
  transactionStatus,  \* per page: [visible, status]
  timers,             \* per page: pending banner-dismiss setTimeout callbacks
  alerts,             \* per page: the handlers that showed alert("Please connect wallet first")
  searchQuery,        \* per page
  filterCategory,     \* per page
  filterStatus,       \* per page
  tasks,              \* the handler invocations in flight, in order of their start
  used,               \* what the behaviour has used of MaxOps, MaxFaults, MaxWallet
  toggled,            \* per id: the last two toggles whose setData landed
  reported            \* the ids whose submit showed the success banner

vars == <<store, account, provider, listening, loading, isRefreshing,
          creating, preferences, transactionStatus, timers, alerts, searchQuery,
          filterCategory, filterStatus, tasks, used, toggled, reported>>

walletVars == <<account, provider, listening>>
filterVars == <<searchQuery, filterCategory, filterStatus>>

HiddenBanner == [visible |-> FALSE, status |-> "pending"]
Banner(status) == [visible |-> TRUE, status |-> status]

(* ---------------------------------------------------------------------- *)
(* Handler invocations                                                     *)
(* ---------------------------------------------------------------------- *)

\* One invocation of an async handler.  kind: "mount" (the useEffect load),
\* "load" (Refresh), "submit", "activate", "deactivate".  pc is the await it
\* is suspended at.  owner and category are the values of `account` and of
\* the form that the handler's closure captured when it was called.  keys, i,
\* list are the locals of the read loops; failed is the set of positions of
\* the index at which getData is going to throw; blob is the merged record a
\* toggle is about to write.
NewTask(c, kind, pc, id, owner, category) ==
  [client |-> c, kind |-> kind, pc |-> pc, id |-> id, owner |-> owner,
   category |-> category, keys |-> <<>>, i |-> 0, list |-> <<>>, failed |-> {},
   blob |-> NoRecord]

\* the handler has settled: its invocation is gone
RemoveAt(seq, t) == SubSeq(seq, 1, t - 1) \o SubSeq(seq, t + 1, Len(seq))

\* positions of tasks: the mount load of each page and the operations
TaskSlots == 1..(MaxOps + Cardinality(Clients))

CanStart(c) == ~loading[c] /\ used.ops < MaxOps

UseOp == used' = [used EXCEPT !.ops = @ + 1]
UseFault(n) == used.faults + n <= MaxFaults /\ used' = [used EXCEPT !.faults = @ + n]
UseWallet == used.wallet < MaxWallet /\ used' = [used EXCEPT !.wallet = @ + 1]

(* ---------------------------------------------------------------------- *)
(* loadPreferences (App.tsx:88-145)                                        *)
(* ---------------------------------------------------------------------- *)

\* Array.prototype.sort with (a, b) => b.timestamp - a.timestamp: a stable
\* sort, computed as an insertion sort that puts each element after the
\* elements that do not compare after it
\* the comparator with its operands exchanged: a.timestamp - b.timestamp
RECURSIVE InsertAsc(_, _)
InsertAsc(sorted, e) ==
  IF sorted = <<>> THEN <<e>>
  ELSE IF e.timestamp - Head(sorted).timestamp >= 0
       THEN <<Head(sorted)>> \o InsertAsc(Tail(sorted), e)
       ELSE <<e>> \o sorted

RECURSIVE InsertDesc(_, _)
InsertDesc(sorted, e) ==
  IF sorted = <<>> THEN <<e>>
  ELSE IF Head(sorted).timestamp - e.timestamp >= 0
       THEN <<Head(sorted)>> \o InsertDesc(Tail(sorted), e)
       ELSE <<e>> \o sorted

RECURSIVE SortDesc(_)
SortDesc(list) ==
  IF list = <<>> THEN <<>>
  ELSE InsertDesc(SortDesc(SubSeq(list, 1, Len(list) - 1)), list[Len(list)])

\* the row without the default: status is taken from the blob as it is
ListEntryNoDefault(key, obj) ==
  [id |-> key, encryptedData |-> obj.data, timestamp |-> obj.timestamp,
   owner |-> obj.owner, category |-> obj.category, status |-> obj.status]

\* the UiPreference pushed for key from the parsed blob (App.tsx:120-127)
ListEntry(key, obj) ==
  [id |-> key, encryptedData |-> obj.data, timestamp |-> obj.timestamp,
   owner |-> obj.owner, category |-> obj.category,
   status |-> IF obj.status = "none" THEN "pending" ELSE obj.status]

\* the end of loadPreferences and the synchronous rest of its caller: the
\* finally block (App.tsx:141-144) and, in submit and the toggles, the
\* setTimeout that dismisses the banner and submit's finally (App.tsx:211-219,
\* 234-236, 285-287, 347-349).  isSet: setPreferences(list) was reached.
LoadReturn(t, isSet, list) ==
  LET c == tasks[t].client
      k == tasks[t].kind
      reload == k \in {"submit", "activate", "deactivate"}
  IN /\ preferences' = IF isSet THEN [preferences EXCEPT ![c] = list] ELSE preferences
     /\ isRefreshing' = [isRefreshing EXCEPT ![c] = FALSE]
     /\ loading' = [loading EXCEPT ![c] = FALSE]
     /\ timers' = IF reload THEN [timers EXCEPT ![c] = @ + 1] ELSE timers
     /\ creating' = IF k = "submit" THEN [creating EXCEPT ![c] = FALSE] ELSE creating
     /\ tasks' = RemoveAt(tasks, t)

\* useEffect(() => { loadPreferences()... }, []) (App.tsx:60-62)
Mount(c) ==
  /\ loading[c]
  /\ \A t \in DOMAIN tasks : tasks[t].client # c
  /\ tasks' = Append(tasks, NewTask(c, "mount", "load_keys", EmptyString, EmptyString,
                                    EmptyString))
  /\ isRefreshing' = [isRefreshing EXCEPT ![c] = TRUE]
  /\ UNCHANGED <<store, walletVars, loading, creating, preferences, transactionStatus,
                 timers, alerts, filterVars, used, toggled, reported>>

\* the Refresh button, disabled while isRefreshing (App.tsx:521-527)
Refresh(c) ==
  /\ CanStart(c)
  /\ ~isRefreshing[c]
  /\ tasks' = Append(tasks, NewTask(c, "load", "load_keys", EmptyString, EmptyString,
                                    EmptyString))
  /\ isRefreshing' = [isRefreshing EXCEPT ![c] = TRUE]
  /\ UseOp
  /\ UNCHANGED <<store, walletVars, loading, creating, preferences, transactionStatus,
                 timers, alerts, filterVars, toggled, reported>>

\* the parse of the key index outside its try: an unparsable index throws into
\* the outer catch and the load ends without setPreferences
LoadKeysFatalParse(t) ==
  /\ t \in DOMAIN tasks
  /\ tasks[t].pc = "load_keys"
  /\ \E reachable \in BOOLEAN :
       LET keys == ParseKeys(store.keys)
       IN IF ~reachable
          THEN UseFault(1) /\ LoadReturn(t, FALSE, <<>>)
          ELSE IF store.keys.kind = "corrupt"
          THEN UNCHANGED used /\ LoadReturn(t, FALSE, <<>>)
          ELSE IF keys = <<>>
          THEN UNCHANGED used /\ LoadReturn(t, TRUE, SortDesc(<<>>))
          ELSE /\ \E failed \in SUBSET (1..Len(keys)) :
                    /\ UseFault(Cardinality(failed))
                    /\ tasks' = [tasks EXCEPT ![t] = [@ EXCEPT !.pc = "load_rec",
                                                                 !.keys = keys, !.i = 1,
                                                                 !.list = <<>>,
                                                                 !.failed = failed]]
               /\ UNCHANGED <<preferences, isRefreshing, loading, timers, creating>>
  /\ UNCHANGED <<store, walletVars, transactionStatus, alerts, filterVars, toggled, reported>>

\* from the call to the return of getData("preference_keys") (App.tsx:91-112).
\* reachable = FALSE: getContractReadOnly gave null, isAvailable gave false, or
\* one of the calls threw; the load ends without setPreferences.  The
\* positions at which the loop's getData is going to throw are drawn here.
LoadKeys(t) ==
  /\ t \in DOMAIN tasks
  /\ tasks[t].pc = "load_keys"
  /\ \E reachable \in BOOLEAN :
       LET keys == ParseKeys(store.keys)
       IN IF ~reachable
          THEN UseFault(1) /\ LoadReturn(t, FALSE, <<>>)
          ELSE IF keys = <<>>
          THEN UNCHANGED used /\ LoadReturn(t, TRUE, SortDesc(<<>>))
          ELSE /\ \E failed \in SUBSET (1..Len(keys)) :
                    /\ UseFault(Cardinality(failed))
                    /\ tasks' = [tasks EXCEPT ![t] = [@ EXCEPT !.pc = "load_rec",
                                                                 !.keys = keys, !.i = 1,
                                                                 !.list = <<>>,
                                                                 !.failed = failed]]
               /\ UNCHANGED <<preferences, isRefreshing, loading, timers, creating>>
  /\ UNCHANGED <<store, walletVars, transactionStatus, alerts, filterVars, toggled, reported>>

\* the loop with one try around it instead of one per record: the first bad
\* record ends the load in the outer catch
LoadRecOuterCatch(t) ==
  /\ t \in DOMAIN tasks
  /\ tasks[t].pc = "load_rec"
  /\ LET task == tasks[t]
         key == task.keys[task.i]
         preferenceBytes == store.recs[key]
         good == task.i \notin task.failed /\ preferenceBytes.kind = "json"
         list == IF good THEN Append(task.list, ListEntry(key, preferenceBytes.val))
                 ELSE task.list
     IN IF ~good
        THEN LoadReturn(t, FALSE, <<>>)
        ELSE IF task.i = Len(task.keys)
        THEN LoadReturn(t, TRUE, SortDesc(list))
        ELSE /\ tasks' = [tasks EXCEPT ![t] = [@ EXCEPT !.i = @ + 1, !.list = list]]
             /\ UNCHANGED <<preferences, isRefreshing, loading, timers, creating>>
  /\ UNCHANGED <<store, walletVars, transactionStatus, alerts, filterVars, used, toggled,
                 reported>>

\* one turn of the loop: getData(`preference_${key}`) returns or throws
\* (App.tsx:114-135); after the last key, the sort and setPreferences (137-138)
LoadRec(t) ==
  /\ t \in DOMAIN tasks
  /\ tasks[t].pc = "load_rec"
  /\ LET task == tasks[t]
         key == task.keys[task.i]
         preferenceBytes == store.recs[key]
         list == IF task.i \notin task.failed /\ preferenceBytes.kind = "json"
                 THEN Append(task.list, ListEntry(key, preferenceBytes.val))
                 ELSE task.list
     IN IF task.i = Len(task.keys)
        THEN LoadReturn(t, TRUE, SortDesc(list))
        ELSE /\ tasks' = [tasks EXCEPT ![t] = [@ EXCEPT !.i = @ + 1, !.list = list]]
             /\ UNCHANGED <<preferences, isRefreshing, loading, timers, creating>>
  /\ UNCHANGED <<store, walletVars, transactionStatus, alerts, filterVars, used, toggled, reported>>

(* ---------------------------------------------------------------------- *)
(* Derived views (App.tsx:41-58) and isOwner (App.tsx:363-365)             *)
(* ---------------------------------------------------------------------- *)

matchesSearch(c, preference) ==
  \/ searchQuery[c] = EmptyString
  \/ includes(toLowerCase(preference.category), toLowerCase(searchQuery[c]))
  \/ includes(toLowerCase(preference.id), toLowerCase(searchQuery[c]))

matchesCategory(c, preference) ==
  filterCategory[c] = <<"a", "l", "l">> \/ preference.category = filterCategory[c]

matchesStatus(c, preference) ==
  filterStatus[c] = "all" \/ preference.status = filterStatus[c]

\* the callback with || in place of &&
RECURSIVE FilterListAny(_, _)
FilterListAny(c, list) ==
  IF list = <<>> THEN <<>>
  ELSE LET rest == FilterListAny(c, Tail(list))
       IN IF matchesSearch(c, Head(list)) \/ matchesCategory(c, Head(list))
             \/ matchesStatus(c, Head(list))
          THEN <<Head(list)>> \o rest
          ELSE rest

\* Array.prototype.filter: keep, in order, the elements the callback accepts
RECURSIVE FilterList(_, _)
FilterList(c, list) ==
  IF list = <<>> THEN <<>>
  ELSE LET rest == FilterList(c, Tail(list))
       IN IF matchesSearch(c, Head(list)) /\ matchesCategory(c, Head(list))
             /\ matchesStatus(c, Head(list))
          THEN <<Head(list)>> \o rest
          ELSE rest

filteredPreferences(c) == FilterList(c, preferences[c])

RECURSIVE CountStatus(_, _)
CountStatus(list, status) ==
  IF list = <<>> THEN 0
  ELSE (IF Head(list).status = status THEN 1 ELSE 0) + CountStatus(Tail(list), status)

activeCount(c) == CountStatus(preferences[c], "active")
inactiveCount(c) == CountStatus(preferences[c], "inactive")
pendingCount(c) == CountStatus(preferences[c], "pending")

isOwner(c, address) == toLowerCase(account[c]) = toLowerCase(address)

(* ---------------------------------------------------------------------- *)
(* The catch blocks of submit and of the toggles                           *)
(* ---------------------------------------------------------------------- *)

\* the catch block of submit without the finally block after it: creating
\* stays set
CatchKeepsCreating(t) ==
  LET c == tasks[t].client
  IN /\ transactionStatus' = [transactionStatus EXCEPT ![c] = Banner("error")]
     /\ timers' = [timers EXCEPT ![c] = @ + 1]
     /\ tasks' = RemoveAt(tasks, t)
     /\ UNCHANGED <<store, isRefreshing, toggled, reported, creating>>

\* the catch blocks without their setTimeout: the error banner is shown and
\* nothing is scheduled to hide it
CatchNoTimer(t) ==
  LET c == tasks[t].client
  IN /\ transactionStatus' = [transactionStatus EXCEPT ![c] = Banner("error")]
     /\ creating' = IF tasks[t].kind = "submit" THEN [creating EXCEPT ![c] = FALSE]
                    ELSE creating
     /\ tasks' = RemoveAt(tasks, t)
     /\ UNCHANGED <<store, isRefreshing, toggled, reported, timers>>

\* App.tsx:220-236, 288-298, 350-360: the error banner, its dismiss timer and,
\* in submit, setCreating(false)
Catch(t) ==
  LET c == tasks[t].client
  IN /\ transactionStatus' = [transactionStatus EXCEPT ![c] = Banner("error")]
     /\ timers' = [timers EXCEPT ![c] = @ + 1]
     /\ creating' = IF tasks[t].kind = "submit" THEN [creating EXCEPT ![c] = FALSE]
                    ELSE creating
     /\ tasks' = RemoveAt(tasks, t)
     /\ UNCHANGED <<store, isRefreshing, toggled, reported>>

\* a retry: the catch block starts the handler's try block again
ThrowRetry(t) ==
  /\ UseFault(1)
  /\ tasks' = [tasks EXCEPT ![t] =
                 [@ EXCEPT !.pc = IF tasks[t].kind = "submit" THEN "sub_setrec"
                                  ELSE "tog_read"]]
  /\ UNCHANGED <<store, transactionStatus, timers, creating, isRefreshing, toggled,
                 reported>>

\* a call of the contract throws (a failed request, a rejected transaction, a
\* null contract) and the handler's catch block runs
Throw(t) == UseFault(1) /\ Catch(t)

(* ---------------------------------------------------------------------- *)
(* submitPreference (App.tsx:147-237)                                      *)
(* ---------------------------------------------------------------------- *)

\* the guard without its return: the alert is shown and the handler goes on
SubmitPreferenceNoReturn(c) ==
  /\ ~loading[c] /\ used.ops < MaxOps
  /\ ~creating[c]
  /\ used' = [used EXCEPT !.ops = @ + 1]
  /\ \E category \in FormCategories :
       /\ alerts' = IF ~provider[c] THEN [alerts EXCEPT ![c] = Append(@, "submit")]
                    ELSE alerts
       /\ creating' = [creating EXCEPT ![c] = TRUE]
       /\ transactionStatus' = [transactionStatus EXCEPT ![c] = Banner("pending")]
       /\ tasks' = Append(tasks, NewTask(c, "submit", "sub_setrec", EmptyString,
                                         account[c], category))
  /\ UNCHANGED <<store, walletVars, loading, isRefreshing, preferences, timers,
                 filterVars, toggled, reported>>

\* the click on "Submit Securely" (disabled while creating, App.tsx:763-769;
\* handleSubmit requires a category, App.tsx:686-693) up to the first await
SubmitPreference(c) ==
  /\ CanStart(c)
  /\ ~creating[c]
  /\ UseOp
  /\ \E category \in FormCategories :
       IF ~provider[c]
       THEN /\ alerts' = [alerts EXCEPT ![c] = Append(@, "submit")]
            /\ UNCHANGED <<creating, transactionStatus, tasks>>
       ELSE /\ creating' = [creating EXCEPT ![c] = TRUE]
            /\ transactionStatus' = [transactionStatus EXCEPT ![c] = Banner("pending")]
            /\ tasks' = Append(tasks, NewTask(c, "submit", "sub_setrec", EmptyString,
                                              account[c], category))
            /\ UNCHANGED alerts
  /\ UNCHANGED <<store, walletVars, loading, isRefreshing, preferences, timers,
                 filterVars, toggled, reported>>

\* the first setData issued without await and lost: the handler goes on to
\* the index with no record stored
SubmitSetRecordLost(t) ==
  /\ t \in DOMAIN tasks
  /\ tasks[t].pc = "sub_setrec"
  /\ \E preferenceId \in Ids :
       tasks' = [tasks EXCEPT ![t] = [@ EXCEPT !.pc = "sub_getkeys", !.id = preferenceId]]
  /\ UNCHANGED <<store, transactionStatus, timers, creating, isRefreshing, toggled,
                 reported, used, walletVars, loading, preferences, alerts, filterVars>>

\* getContractWithSigner, the identifier, and the first setData (App.tsx:162-183).
\* written = FALSE: the contract was null or setData threw.
SubmitSetRecord(t) ==
  /\ t \in DOMAIN tasks
  /\ tasks[t].pc = "sub_setrec"
  /\ \/ Throw(t)
     \/ \E preferenceId \in Ids :
          LET preferenceData == [data |-> EncryptForm(tasks[t].category),
                                 timestamp |-> TimeOf(preferenceId),
                                 owner |-> tasks[t].owner,
                                 category |-> tasks[t].category,
                                 status |-> "pending"]
          IN /\ UNCHANGED used
             /\ store' = [store EXCEPT !.recs[preferenceId] = RecBlob(preferenceData)]
             /\ tasks' = [tasks EXCEPT ![t] = [@ EXCEPT !.pc = "sub_getkeys",
                                                          !.id = preferenceId]]
             /\ UNCHANGED <<transactionStatus, timers, creating, isRefreshing, toggled, reported>>
  /\ UNCHANGED <<walletVars, loading, preferences, alerts, filterVars>>

\* getData("preference_keys"), the parse and keys.push (App.tsx:185-196)
SubmitGetKeys(t) ==
  /\ t \in DOMAIN tasks
  /\ tasks[t].pc = "sub_getkeys"
  /\ \/ Throw(t)
     \/ /\ UNCHANGED used
        /\ tasks' = [tasks EXCEPT ![t] = [@ EXCEPT !.pc = "sub_setkeys",
                                            !.keys = Append(ParseKeys(store.keys),
                                                            tasks[t].id)]]
        /\ UNCHANGED <<store, transactionStatus, timers, creating, isRefreshing, toggled, reported>>
  /\ UNCHANGED <<walletVars, loading, preferences, alerts, filterVars>>

\* the submit without its "await loadPreferences()": after the index write it
\* shows the success banner, sets the dismiss timer and returns
SubmitSetKeysNoReload(t) ==
  /\ t \in DOMAIN tasks
  /\ tasks[t].pc = "sub_setkeys"
  /\ \/ Throw(t)
     \/ LET c == tasks[t].client
        IN /\ UNCHANGED used
           /\ store' = [store EXCEPT !.keys = KeysBlob(tasks[t].keys)]
           /\ transactionStatus' = [transactionStatus EXCEPT ![c] = Banner("success")]
           /\ timers' = [timers EXCEPT ![c] = @ + 1]
           /\ creating' = [creating EXCEPT ![c] = FALSE]
           /\ tasks' = RemoveAt(tasks, t)
           /\ reported' = reported \cup {tasks[t].id}
           /\ UNCHANGED <<isRefreshing, toggled>>
  /\ UNCHANGED <<walletVars, loading, preferences, alerts, filterVars>>

\* setData("preference_keys"), the success banner and the call of
\* loadPreferences up to its first await (App.tsx:198-209, 89)
SubmitSetKeys(t) ==
  /\ t \in DOMAIN tasks
  /\ tasks[t].pc = "sub_setkeys"
  /\ \/ Throw(t)
     \/ LET c == tasks[t].client
        IN /\ UNCHANGED used
           /\ store' = [store EXCEPT !.keys = KeysBlob(tasks[t].keys)]
           /\ transactionStatus' = [transactionStatus EXCEPT ![c] = Banner("success")]
           /\ isRefreshing' = [isRefreshing EXCEPT ![c] = TRUE]
           /\ tasks' = [tasks EXCEPT ![t] = [@ EXCEPT !.pc = "load_keys", !.keys = <<>>]]
           /\ reported' = reported \cup {tasks[t].id}
           /\ UNCHANGED <<timers, creating, toggled>>
  /\ UNCHANGED <<walletVars, loading, preferences, alerts, filterVars>>

(* ---------------------------------------------------------------------- *)
(* activatePreference, deactivatePreference (App.tsx:239-361)              *)
(* ---------------------------------------------------------------------- *)

\* deactivate puts the record back to "pending"
TargetStatusPending(kind) == IF kind = "activate" THEN "active" ELSE "pending"

TargetStatus(kind) == IF kind = "activate" THEN "active" ELSE "inactive"

\* the click on a row's Activate or Deactivate button, which the row shows to
\* isOwner(preference.owner) for a status other than the target
\* (App.tsx:553-587), up to the first await
TogglePreference(c, kind) ==
  /\ CanStart(c)
  /\ UseOp
  /\ \E j \in DOMAIN filteredPreferences(c) :
       LET preference == filteredPreferences(c)[j]
       IN /\ isOwner(c, preference.owner)
          /\ preference.status # TargetStatus(kind)
          /\ IF ~provider[c]
             THEN /\ alerts' = [alerts EXCEPT ![c] = Append(@, kind)]
                  /\ UNCHANGED <<transactionStatus, tasks>>
             ELSE /\ transactionStatus' = [transactionStatus EXCEPT
                                             ![c] = Banner("pending")]
                  /\ tasks' = Append(tasks, NewTask(c, kind, "tog_read", preference.id,
                                                    account[c], EmptyString))
                  /\ UNCHANGED alerts
  /\ UNCHANGED <<store, walletVars, loading, isRefreshing, creating, preferences,
                 timers, filterVars, toggled, reported>>

activatePreference(c) == TogglePreference(c, "activate")
deactivatePreference(c) == TogglePreference(c, "deactivate")

\* the read without its length test: an absent record is taken for an empty
\* object, and the toggle goes on to write it
ToggleReadUpsert(t) ==
  /\ t \in DOMAIN tasks
  /\ tasks[t].pc = "tog_read"
  /\ LET preferenceBytes == store.recs[tasks[t].id]
     IN \/ Throw(t)
        \/ /\ preferenceBytes.kind = "corrupt"
           /\ Catch(t)
           /\ UNCHANGED used
        \/ /\ preferenceBytes.kind # "corrupt"
           /\ UNCHANGED used
           /\ tasks' = [tasks EXCEPT ![t] =
                          [@ EXCEPT !.pc = "tog_write",
                                    !.blob = [preferenceBytes.val EXCEPT
                                                !.status = TargetStatus(tasks[t].kind)]]]
           /\ UNCHANGED <<store, transactionStatus, timers, creating, isRefreshing,
                          toggled, reported>>
  /\ UNCHANGED <<walletVars, loading, preferences, alerts, filterVars>>

\* the 3000 ms delay, getContractWithSigner, getData of the record, the parse
\* and the merge of the new status (App.tsx:253-270, 315-332)
ToggleRead(t) ==
  /\ t \in DOMAIN tasks
  /\ tasks[t].pc = "tog_read"
  /\ LET preferenceBytes == store.recs[tasks[t].id]
     IN \/ Throw(t)
        \/ /\ preferenceBytes.kind # "json"
           /\ Catch(t)
           /\ UNCHANGED used
        \/ /\ preferenceBytes.kind = "json"
           /\ UNCHANGED used
           /\ tasks' = [tasks EXCEPT ![t] =
                          [@ EXCEPT !.pc = "tog_write",
                                    !.blob = [preferenceBytes.val EXCEPT
                                                !.status = TargetStatus(tasks[t].kind)]]]
           /\ UNCHANGED <<store, transactionStatus, timers, creating, isRefreshing,
                          toggled, reported>>
  /\ UNCHANGED <<walletVars, loading, preferences, alerts, filterVars>>

\* a conditional write: setData is rejected while another toggle of the same
\* record is between its read and its write
ToggleWriteConditional(t) ==
  /\ t \in DOMAIN tasks
  /\ tasks[t].pc = "tog_write"
  /\ \/ Throw(t)
     \/ /\ \E u \in DOMAIN tasks :
             u # t /\ tasks[u].pc = "tog_write" /\ tasks[u].id = tasks[t].id
        /\ Catch(t)
        /\ UNCHANGED used
     \/ LET c == tasks[t].client
            id == tasks[t].id
        IN /\ \A u \in DOMAIN tasks :
                u # t => ~(tasks[u].pc = "tog_write" /\ tasks[u].id = id)
           /\ UNCHANGED used
           /\ store' = [store EXCEPT !.recs[id] = RecBlob(tasks[t].blob)]
           /\ transactionStatus' = [transactionStatus EXCEPT ![c] = Banner("success")]
           /\ isRefreshing' = [isRefreshing EXCEPT ![c] = TRUE]
           /\ tasks' = [tasks EXCEPT ![t] = [@ EXCEPT !.pc = "load_keys",
                                                        !.blob = NoRecord]]
           /\ toggled' = [toggled EXCEPT ![id] =
                            IF @ = <<>> THEN <<tasks[t].kind>>
                            ELSE <<@[Len(@)], tasks[t].kind>>]
           /\ UNCHANGED <<timers, creating, reported>>
  /\ UNCHANGED <<walletVars, loading, preferences, alerts, filterVars>>

\* setData of the merged record, the success banner and the call of
\* loadPreferences up to its first await (App.tsx:272-283, 334-345, 89)
ToggleWrite(t) ==
  /\ t \in DOMAIN tasks
  /\ tasks[t].pc = "tog_write"
  /\ \/ Throw(t)
     \/ LET c == tasks[t].client
            id == tasks[t].id
        IN /\ UNCHANGED used
           /\ store' = [store EXCEPT !.recs[id] = RecBlob(tasks[t].blob)]
           /\ transactionStatus' = [transactionStatus EXCEPT ![c] = Banner("success")]
           /\ isRefreshing' = [isRefreshing EXCEPT ![c] = TRUE]
           /\ tasks' = [tasks EXCEPT ![t] = [@ EXCEPT !.pc = "load_keys",
                                                        !.blob = NoRecord]]
           /\ toggled' = [toggled EXCEPT ![id] =
                            IF @ = <<>> THEN <<tasks[t].kind>>
                            ELSE <<@[Len(@)], tasks[t].kind>>]
           /\ UNCHANGED <<timers, creating, reported>>
  /\ UNCHANGED <<walletVars, loading, preferences, alerts, filterVars>>

\* a banner-dismiss setTimeout callback runs (App.tsx:211-219, 231-233, 285-287,
\* 295-297, 347-349, 357-359)
DismissTimer(c) ==
  /\ timers[c] > 0
  /\ timers' = [timers EXCEPT ![c] = @ - 1]
  /\ transactionStatus' = [transactionStatus EXCEPT ![c] = HiddenBanner]
  /\ UNCHANGED <<store, walletVars, loading, isRefreshing, creating, preferences,
                 alerts, filterVars, tasks, used, toggled, reported>>

(* ---------------------------------------------------------------------- *)
(* Wallet callbacks (App.tsx:64-86)                                        *)
(* ---------------------------------------------------------------------- *)

\* onWalletSelect: setProvider, then the answer to eth_requestAccounts: the
\* accounts (accounts[0] || "") and the registration of the listener, or a
\* throw and alert("Failed to connect wallet").  The state between setProvider
\* and the answer, provider set and account unchanged, is the state the
\* throwing branch leaves.
onWalletSelect(c) ==
  /\ ~loading[c]
  /\ UseWallet
  /\ provider' = [provider EXCEPT ![c] = TRUE]
  /\ \/ UNCHANGED <<account, listening>>
     \/ \E acc \in Accounts \cup {EmptyString} :
          /\ account' = [account EXCEPT ![c] = acc]
          /\ listening' = [listening EXCEPT ![c] = TRUE]
  /\ UNCHANGED <<store, loading, isRefreshing, creating, preferences,
                 transactionStatus, timers, alerts, filterVars, tasks, toggled, reported>>

\* the wallet's "accountsChanged" event (App.tsx:73-76)
AccountsChanged(c) ==
  /\ listening[c]
  /\ UseWallet
  /\ \E newAcc \in (Accounts \cup {EmptyString}) \ {account[c]} :
       account' = [account EXCEPT ![c] = newAcc]
  /\ UNCHANGED <<store, provider, listening, loading, isRefreshing,
                 creating, preferences, transactionStatus, timers, alerts, filterVars,
                 tasks, toggled, reported>>

onDisconnect(c) ==
  /\ ~loading[c]
  /\ UseWallet
  /\ account[c] # EmptyString \/ provider[c]
  /\ account' = [account EXCEPT ![c] = EmptyString]
  /\ provider' = [provider EXCEPT ![c] = FALSE]
  /\ UNCHANGED <<store, listening, loading, isRefreshing, creating,
                 preferences, transactionStatus, timers, alerts, filterVars, tasks,
                 toggled, reported>>

(* ---------------------------------------------------------------------- *)
(* The pages on a freshly deployed contract                                *)
(* ---------------------------------------------------------------------- *)

EmptyStore == [keys |-> EmptyKeysBlob, recs |-> [id \in Ids |-> EmptyRecBlob]]

InitPages ==
  /\ account = [c \in Clients |-> EmptyString]
  /\ provider = [c \in Clients |-> FALSE]
  /\ listening = [c \in Clients |-> FALSE]
  /\ loading = [c \in Clients |-> TRUE]
  /\ isRefreshing = [c \in Clients |-> FALSE]
  /\ creating = [c \in Clients |-> FALSE]
  /\ preferences = [c \in Clients |-> <<>>]
  /\ transactionStatus = [c \in Clients |-> HiddenBanner]
  /\ timers = [c \in Clients |-> 0]
  /\ alerts = [c \in Clients |-> <<>>]
  /\ searchQuery = [c \in Clients |-> EmptyString]
  /\ filterCategory = [c \in Clients |-> <<"a", "l", "l">>]
  /\ filterStatus = [c \in Clients |-> "all"]
  /\ tasks = <<>>
  /\ used = [ops |-> 0, faults |-> 0, wallet |-> 0]
  /\ toggled = [id \in Ids |-> <<>>]
  /\ reported = {}

\* loadPreferences, on its own or as the reload that ends a submit or a toggle
LoadStep(t) ==
  \/ LoadKeys(t)
  \/ LoadRec(t)

SubmitStep(t) ==
  \/ SubmitSetRecord(t)
  \/ SubmitGetKeys(t)
  \/ SubmitSetKeys(t)

ToggleStep(t) ==
  \/ ToggleRead(t)
  \/ ToggleWrite(t)

\* what the user of page c can click
UserStep(c) ==
  \/ Refresh(c)
  \/ SubmitPreference(c)
  \/ activatePreference(c)
  \/ deactivatePreference(c)

WalletStep(c) ==
  \/ onWalletSelect(c)
  \/ AccountsChanged(c)
  \/ onDisconnect(c)

\* One page, from its construction, on a freshly deployed contract.
Init ==
  /\ store = EmptyStore
  /\ InitPages

Next ==
  \/ \E c \in {"c1"} :
       \/ Mount(c)
       \/ UserStep(c)
       \/ WalletStep(c)
       \/ DismissTimer(c)
  \/ \E t \in TaskSlots :
       \/ LoadStep(t)
       \/ SubmitStep(t)
       \/ ToggleStep(t)

Spec == Init /\ [][Next]_vars

\* Two pages on one contract, each after its mount load on the fresh contract
\* and after its wallet was selected: page c1 by account A, page c2 by account B.
InitShared ==
  /\ store = EmptyStore
  /\ account = [c \in Clients |-> IF c = "c1" THEN <<"A">> ELSE <<"B">>]
  /\ provider = [c \in Clients |-> TRUE]
  /\ listening = [c \in Clients |-> TRUE]
  /\ loading = [c \in Clients |-> FALSE]
  /\ isRefreshing = [c \in Clients |-> FALSE]
  /\ creating = [c \in Clients |-> FALSE]
  /\ preferences = [c \in Clients |-> <<>>]
  /\ transactionStatus = [c \in Clients |-> HiddenBanner]
  /\ timers = [c \in Clients |-> 0]
  /\ alerts = [c \in Clients |-> <<>>]
  /\ searchQuery = [c \in Clients |-> EmptyString]
  /\ filterCategory = [c \in Clients |-> <<"a", "l", "l">>]
  /\ filterStatus = [c \in Clients |-> "all"]
  /\ tasks = <<>>
  /\ used = [ops |-> 0, faults |-> 0, wallet |-> 0]
  /\ toggled = [id \in Ids |-> <<>>]
  /\ reported = {}

NextShared ==
  \/ \E c \in Clients :
       \/ UserStep(c)
       \/ DismissTimer(c)
  \/ \E t \in TaskSlots :
       \/ LoadStep(t)
       \/ SubmitStep(t)
       \/ ToggleStep(t)

SpecShared == InitShared /\ [][NextShared]_vars

(* ---------------------------------------------------------------------- *)
(* One page on a contract whose store holds anything                       *)
(* ---------------------------------------------------------------------- *)

RECURSIVE SeqsUpTo(_, _)
SeqsUpTo(S, n) ==
  IF n = 0 THEN {<<>>}
  ELSE LET shorter == SeqsUpTo(S, n - 1)
       IN shorter \cup {Append(q, x) : q \in shorter, x \in S}

\* the key-value layer imposes no schema: the blob under "preference_keys" is
\* absent, unparsable, or a JSON array of identifiers
AnyKeysBlobs ==
  {EmptyKeysBlob, CorruptKeysBlob} \cup {KeysBlob(k) : k \in SeqsUpTo(Ids, MaxKeys)}

\* a status string that is none of the three the page knows
ForeignStatus == "archived"

\* a record blob is absent, unparsable, or a JSON object, without a status
\* field or with one that holds any string
AnyRecBlobs ==
  {EmptyRecBlob, CorruptRecBlob} \cup
  {RecBlob([data |-> EncryptForm(<<"L">>), timestamp |-> ts, owner |-> <<"A">>,
            category |-> <<"L">>, status |-> st]) :
     ts \in Times, st \in Statuses \cup {"none", ForeignStatus}}

InitLoad ==
  /\ store \in [keys : AnyKeysBlobs, recs : [Ids -> AnyRecBlobs]]
  /\ InitPages

NextLoad ==
  \/ \E c \in {"c1"} :
       \/ Mount(c)
       \/ Refresh(c)
  \/ \E t \in TaskSlots :
       \/ LoadKeys(t)
       \/ LoadRec(t)

SpecLoad == InitLoad /\ [][NextLoad]_vars

(* ---------------------------------------------------------------------- *)
(* The search box and the two selectors over a loaded list                 *)
(* ---------------------------------------------------------------------- *)

\* texts typed into the search box
Queries == {EmptyString, <<"t">>, <<"T", "H">>, <<"h", "t">>, <<"X">>, <<"l">>}

\* the rows a load can have produced
AnyEntries ==
  {[id |-> id, encryptedData |-> EncryptForm(cat), timestamp |-> 1, owner |-> <<"A">>,
    category |-> cat, status |-> st] :
     id \in Ids, cat \in Categories, st \in Statuses}

\* the category selector offers "all" and the categories of the loaded list
\* (App.tsx:58, 500-509)
categories(c) == {preferences[c][j].category : j \in DOMAIN preferences[c]}

setSearchQuery(c) ==
  /\ \E q \in Queries : searchQuery' = [searchQuery EXCEPT ![c] = q]
  /\ UNCHANGED <<store, walletVars, loading, isRefreshing, creating, preferences,
                 transactionStatus, timers, alerts, filterCategory, filterStatus, tasks,
                 used, toggled, reported>>

setFilterCategory(c) ==
  /\ \E cat \in {<<"a", "l", "l">>} \cup categories(c) :
       filterCategory' = [filterCategory EXCEPT ![c] = cat]
  /\ UNCHANGED <<store, walletVars, loading, isRefreshing, creating, preferences,
                 transactionStatus, timers, alerts, searchQuery, filterStatus, tasks,
                 used, toggled, reported>>

setFilterStatus(c) ==
  /\ \E st \in {"all"} \cup Statuses :
       filterStatus' = [filterStatus EXCEPT ![c] = st]
  /\ UNCHANGED <<store, walletVars, loading, isRefreshing, creating, preferences,
                 transactionStatus, timers, alerts, searchQuery, filterCategory, tasks,
                 used, toggled, reported>>

InitView ==
  /\ store = EmptyStore
  /\ account = [c \in Clients |-> EmptyString]
  /\ provider = [c \in Clients |-> FALSE]
  /\ listening = [c \in Clients |-> FALSE]
  /\ loading = [c \in Clients |-> c # "c1"]
  /\ isRefreshing = [c \in Clients |-> FALSE]
  /\ creating = [c \in Clients |-> FALSE]
  /\ \E list \in SeqsUpTo(AnyEntries, MaxKeys) :
       preferences = [c \in Clients |-> IF c = "c1" THEN list ELSE <<>>]
  /\ transactionStatus = [c \in Clients |-> HiddenBanner]
  /\ timers = [c \in Clients |-> 0]
  /\ alerts = [c \in Clients |-> <<>>]
  /\ searchQuery = [c \in Clients |-> EmptyString]
  /\ filterCategory = [c \in Clients |-> <<"a", "l", "l">>]
  /\ filterStatus = [c \in Clients |-> "all"]
  /\ tasks = <<>>
  /\ used = [ops |-> 0, faults |-> 0, wallet |-> 0]
  /\ toggled = [id \in Ids |-> <<>>]
  /\ reported = {}

NextView ==
  \E c \in {"c1"} :
    \/ setSearchQuery(c)
    \/ setFilterCategory(c)
    \/ setFilterStatus(c)

SpecView == InitView /\ [][NextView]_vars

(* ---------------------------------------------------------------------- *)
(* A connected page whose list was loaded before the store changed         *)
(* ---------------------------------------------------------------------- *)

\* the blob a record key can hold by now: absent, unparsable, or the record
\* in any status
StaleRecBlobs(id) ==
  {EmptyRecBlob, CorruptRecBlob} \cup
  {RecBlob([data |-> EncryptForm(<<"T", "h">>), timestamp |-> TimeOf(id),
            owner |-> <<"A">>, category |-> <<"T", "h">>, status |-> st]) :
     st \in Statuses}

\* the row the page loaded for id when its record had status st
StaleRow(id, st) ==
  [id |-> id, encryptedData |-> EncryptForm(<<"T", "h">>), timestamp |-> TimeOf(id),
   owner |-> <<"A">>, category |-> <<"T", "h">>, status |-> st]

\* the lists an earlier load left on the page
StaleLists == {<<StaleRow(<<"1", "x">>, st)>> : st \in Statuses}

\* the blob the index key can hold by now
StaleKeysBlobs ==
  {EmptyKeysBlob, CorruptKeysBlob, KeysBlob(<<<<"1", "x">>>>),
   KeysBlob(<<<<"1", "x">>, <<"2", "y">>>>)}

\* Page c1 is connected as account A and shows a list it loaded earlier; the
\* contract's store, which any caller of setData can write, holds anything.
InitStale ==
  /\ store \in [keys : StaleKeysBlobs,
                 recs : {[id \in Ids |-> IF id = <<"1", "x">> THEN b1 ELSE b2] :
                           b1 \in StaleRecBlobs(<<"1", "x">>),
                           b2 \in {EmptyRecBlob} \cup
                                    {RecBlob([data |-> EncryptForm(<<"T", "h">>),
                                              timestamp |-> TimeOf(<<"2", "y">>),
                                              owner |-> <<"A">>,
                                              category |-> <<"T", "h">>,
                                              status |-> "pending"])}}]
  /\ account = [c \in Clients |-> IF c = "c1" THEN <<"A">> ELSE EmptyString]
  /\ provider = [c \in Clients |-> c = "c1"]
  /\ listening = [c \in Clients |-> c = "c1"]
  /\ loading = [c \in Clients |-> c # "c1"]
  /\ isRefreshing = [c \in Clients |-> FALSE]
  /\ creating = [c \in Clients |-> FALSE]
  /\ \E list \in StaleLists :
       preferences = [c \in Clients |-> IF c = "c1" THEN list ELSE <<>>]
  /\ transactionStatus = [c \in Clients |-> HiddenBanner]
  /\ timers = [c \in Clients |-> 0]
  /\ alerts = [c \in Clients |-> <<>>]
  /\ searchQuery = [c \in Clients |-> EmptyString]
  /\ filterCategory = [c \in Clients |-> <<"a", "l", "l">>]
  /\ filterStatus = [c \in Clients |-> "all"]
  /\ tasks = <<>>
  /\ used = [ops |-> 0, faults |-> 0, wallet |-> 0]
  /\ toggled = [id \in Ids |-> <<>>]
  /\ reported = {}

NextStale ==
  \/ \E c \in {"c1"} :
       \/ Refresh(c)
       \/ activatePreference(c)
       \/ deactivatePreference(c)
       \/ DismissTimer(c)
  \/ \E t \in TaskSlots :
       \/ LoadStep(t)
       \/ ToggleStep(t)

SpecStale == InitStale /\ [][NextStale]_vars

(* ---------------------------------------------------------------------- *)
(* A connected page whose calls and timers all come back                   *)
(* ---------------------------------------------------------------------- *)

\* Page c1 is connected as account A; the store holds one record of A, in
\* status pending, and the page has loaded it.
InitSettle ==
  /\ store = [keys |-> KeysBlob(<<<<"1", "x">>>>),
              recs |-> [id \in Ids |->
                          IF id = <<"1", "x">>
                          THEN RecBlob([data |-> EncryptForm(<<"T", "h">>),
                                        timestamp |-> TimeOf(id), owner |-> <<"A">>,
                                        category |-> <<"T", "h">>, status |-> "pending"])
                          ELSE EmptyRecBlob]]
  /\ account = [c \in Clients |-> IF c = "c1" THEN <<"A">> ELSE EmptyString]
  /\ provider = [c \in Clients |-> c = "c1"]
  /\ listening = [c \in Clients |-> c = "c1"]
  /\ loading = [c \in Clients |-> c # "c1"]
  /\ isRefreshing = [c \in Clients |-> FALSE]
  /\ creating = [c \in Clients |-> FALSE]
  /\ preferences = [c \in Clients |-> IF c = "c1"
                                       THEN <<StaleRow(<<"1", "x">>, "pending")>>
                                       ELSE <<>>]
  /\ transactionStatus = [c \in Clients |-> HiddenBanner]
  /\ timers = [c \in Clients |-> 0]
  /\ alerts = [c \in Clients |-> <<>>]
  /\ searchQuery = [c \in Clients |-> EmptyString]
  /\ filterCategory = [c \in Clients |-> <<"a", "l", "l">>]
  /\ filterStatus = [c \in Clients |-> "all"]
  /\ tasks = <<>>
  /\ used = [ops |-> 0, faults |-> 0, wallet |-> 0]
  /\ toggled = [id \in Ids |-> <<>>]
  /\ reported = {}

\* what the page's handler invocations do once the awaited call answers
TaskStep(t) ==
  \/ LoadStep(t)
  \/ SubmitStep(t)
  \/ ToggleStep(t)

\* the user of this page clicks one time less than MaxOps allows
SettleOps == MaxOps - 1

SettleClick(c) ==
  /\ used.ops < SettleOps
  /\ \/ SubmitPreference(c)
     \/ activatePreference(c)
     \/ deactivatePreference(c)

NextSettle ==
  \/ \E c \in {"c1"} :
       \/ SettleClick(c)
       \/ onDisconnect(c)
       \/ DismissTimer(c)
  \/ \E t \in TaskSlots : TaskStep(t)

\* an awaited call returns or throws, and a setTimeout callback runs: some
\* invocation in flight goes on, and a pending timer fires.  Nothing makes
\* the user click.
SpecSettle ==
  /\ InitSettle
  /\ [][NextSettle]_vars
  /\ WF_vars(\E t \in TaskSlots : TaskStep(t))
  /\ WF_vars(DismissTimer("c1"))

(* ====================================================================== *)
(* Properties                                                              *)
(* ====================================================================== *)

Range(seq) == {seq[j] : j \in DOMAIN seq}

HasRecord(id) == store.recs[id].kind = "json"

IdsOf(list) == {list[j].id : j \in DOMAIN list}

SortedByTimestampDesc(list) ==
  \A j, k \in DOMAIN list : j < k => list[j].timestamp >= list[k].timestamp

\* task t is a load at its last key, and this step ends it
LoadFinishes(t) ==
  /\ t \in DOMAIN tasks
  /\ tasks[t].pc = "load_rec"
  /\ tasks[t].i = Len(tasks[t].keys)
  /\ tasks' = RemoveAt(tasks, t)

\* the row the store's blob of id stands for
RowOf(id) ==
  LET obj == store.recs[id].val
  IN [id |-> id, encryptedData |-> obj.data, timestamp |-> obj.timestamp,
      owner |-> obj.owner, category |-> obj.category,
      status |-> IF obj.status = "none" THEN "pending" ELSE obj.status]

C9_BadRecordSkippedAlone ==
  [][\A t \in TaskSlots :
       (t \in DOMAIN tasks /\ tasks[t].pc = "load_rec" /\ tasks' # tasks) =>
         LET task == tasks[t]
             c == task.client
         IN IF task.i < Len(task.keys)
            THEN /\ t \in DOMAIN tasks'
                 /\ tasks'[t].pc = "load_rec"
                 /\ tasks'[t].i = task.i + 1
                 /\ SubSeq(tasks'[t].list, 1, Len(task.list)) = task.list
                 /\ \A n \in 1..task.i :
                      (n \notin task.failed /\ HasRecord(task.keys[n]))
                        => task.keys[n] \in IdsOf(tasks'[t].list)
            ELSE /\ tasks' = RemoveAt(tasks, t)
                 /\ ~isRefreshing'[c]
                 /\ ~loading'[c]
                 /\ \A n \in DOMAIN task.keys :
                      (n \notin task.failed /\ HasRecord(task.keys[n]))
                        => task.keys[n] \in IdsOf(preferences'[c])]_vars

\* C9 witness: a load has ended on an index that names a record without a
\* valid blob before a record with one, and the list holds the valid one.
C9_Witness ==
  /\ tasks = <<>>
  /\ ~loading["c1"]
  /\ LET keys == ParseKeys(store.keys)
     IN /\ Len(keys) = 2
        /\ ~HasRecord(keys[1])
        /\ HasRecord(keys[2])
        /\ IdsOf(preferences["c1"]) = {keys[2]}

\* two characters that are one letter in either case
SameLetter(a, b) ==
  \/ a = b
  \/ {a, b} \in {{"a", "A"}, {"b", "B"}, {"e", "E"}, {"f", "F"}, {"h", "H"},
                 {"l", "L"}, {"t", "T"}, {"x", "X"}, {"y", "Y"}}

\* needle occurs in text at some position, letter case aside
OccursIn(needle, text) ==
  \E pos \in 1..(Len(text) - Len(needle) + 1) :
    \A k \in 1..Len(needle) : SameLetter(text[pos + k - 1], needle[k])

\* the three predicates of the filter, stated for a row
Shown(c, row) ==
  /\ \/ searchQuery[c] = EmptyString
     \/ OccursIn(searchQuery[c], row.category)
     \/ OccursIn(searchQuery[c], row.id)
  /\ filterCategory[c] = <<"a", "l", "l">> \/ filterCategory[c] = row.category
  /\ filterStatus[c] = "all" \/ filterStatus[c] = row.status

\* C5: the filtered view is the in-memory list restricted to the rows that
\* satisfy the search, the category and the status predicate all at once, in
\* the list's order; with no search text and both selectors on "all" it is
\* the list itself.
C5_FilterKeepsExactlyMatchingRows ==
  \A c \in Clients :
    LET list == preferences[c]
        view == filteredPreferences(c)
        kept == {j \in DOMAIN list : Shown(c, list[j])}
    IN /\ Len(view) = Cardinality(kept)
       /\ \A j \in kept :
            view[Cardinality({n \in kept : n <= j})] = list[j]
       /\ ( /\ searchQuery[c] = EmptyString
            /\ filterCategory[c] = <<"a", "l", "l">>
            /\ filterStatus[c] = "all" ) => view = list

\* C5 witness: a search text, a category and a status are all set, one row of
\* two passes, and the row that fails does so on one predicate alone.
C5_Witness ==
  /\ searchQuery["c1"] = <<"T", "H">>
  /\ filterCategory["c1"] = <<"T", "h">>
  /\ filterStatus["c1"] = "active"
  /\ Len(preferences["c1"]) = 2
  /\ preferences["c1"][1].category = <<"T", "h">>
  /\ preferences["c1"][1].status = "inactive"
  /\ filteredPreferences("c1") = <<preferences["c1"][2]>>

IsPrefix(p, q) == Len(p) <= Len(q) /\ SubSeq(q, 1, Len(p)) = p

\* C2: once a submit has shown its success banner, its identifier is in the
\* stored key index and its blob is stored, in every later state.
C2_ReportedSubmitStaysIndexed ==
  \A id \in reported :
    /\ id \in Range(ParseKeys(store.keys))
    /\ HasRecord(id)

\* the toggle t is at its setData and this step is the write landing
ToggleLands(t) ==
  /\ t \in DOMAIN tasks
  /\ tasks[t].pc = "tog_write"
  /\ t \in DOMAIN tasks'
  /\ tasks'[t].pc = "load_keys"
  /\ tasks'[t].id = tasks[t].id
  /\ store'.recs[tasks[t].id] = RecBlob(tasks[t].blob)

\* C3: only the stored owner of a record changes its status: a toggle's
\* setData lands only while the page's account is, letter case aside, the
\* owner stored in the record.
C3_OnlyOwnerTogglesStatus ==
  [][\A t \in TaskSlots :
       ToggleLands(t) =>
         isOwner(tasks[t].client, store.recs[tasks[t].id].val.owner)]_vars

C6_IndexedIdsHaveRecords ==
  \A id \in Range(ParseKeys(store.keys)) : store.recs[id].kind # "empty"

\* C6 witness: between the two writes of a submit: its record is stored and
\* not yet in the index, while the index already names another record.
C6_Witness ==
  \E t \in DOMAIN tasks :
    /\ tasks[t].pc \in {"sub_getkeys", "sub_setkeys"}
    /\ HasRecord(tasks[t].id)
    /\ tasks[t].id \notin Range(ParseKeys(store.keys))
    /\ ParseKeys(store.keys) # <<>>

\* C7: every write of the key index stores a sequence that has the sequence
\* stored before as a prefix.
C7_IndexIsAppendOnly ==
  [][IsPrefix(ParseKeys(store.keys), ParseKeys(store'.keys))]_vars

\* C8: the stored key index names no identifier twice.
C8_IndexHasNoDuplicates ==
  LET keys == ParseKeys(store.keys)
  IN \A j, k \in DOMAIN keys : j # k => keys[j] # keys[k]

\* this step is a click on Submit, Activate or Deactivate (not on Refresh)
ActionClicked ==
  /\ used'.ops = used.ops + 1
  /\ ~( /\ Len(tasks') = Len(tasks) + 1
        /\ tasks'[Len(tasks')].kind = "load" )

\* C10: a click on Submit, Activate or Deactivate while the page has no
\* provider shows the alert and does nothing else: no handler invocation
\* starts (so no getData and no setData follows), and the store, the list,
\* the banner, its timers and the creating flag are as before.
C10_NoWalletNoStoreInteraction ==
  [][(ActionClicked /\ ~provider["c1"]) =>
       /\ Len(alerts'["c1"]) = Len(alerts["c1"]) + 1
       /\ UNCHANGED <<store, preferences, transactionStatus, tasks, timers, creating,
                      isRefreshing>>]_vars

\* C10 witness: without a provider, Submit has shown the alert and so has a
\* toggle button.
C10_Witness ==
  /\ ~provider["c1"]
  /\ "submit" \in Range(alerts["c1"])
  /\ \E kind \in {"activate", "deactivate"} : kind \in Range(alerts["c1"])

\* the handler invocation at position t changes and stays in flight
MovesInPlace(t) ==
  /\ t \in DOMAIN tasks
  /\ Len(tasks') = Len(tasks)
  /\ tasks'[t] # tasks[t]

\* the handler invocation at position t returns in this step
Settles(t) ==
  /\ t \in DOMAIN tasks
  /\ tasks' = RemoveAt(tasks, t)

ErrorShown(t) == transactionStatus'[tasks[t].client] = Banner("error")

\* C11: a submit has no rollback.  When it ends at the record write, the
\* store is as before; when it ends at the index read or at the index write,
\* the store is as before, the record blob is stored and its identifier is
\* not in the stored key index; in each case the banner shows the error.
C11_FailedSubmitLeavesOrphan ==
  [][\A t \in TaskSlots :
       (Settles(t) /\ tasks[t].kind = "submit") =>
         /\ tasks[t].pc = "sub_setrec" => (store' = store /\ ErrorShown(t))
         /\ tasks[t].pc \in {"sub_getkeys", "sub_setkeys"} =>
              /\ store' = store
              /\ ErrorShown(t)
              /\ store'.recs[tasks[t].id].kind = "json"
              /\ tasks[t].id \notin Range(ParseKeys(store'.keys))]_vars

\* the transitions of a record's status
StatusTransitions ==
  {<<"pending", "active">>, <<"pending", "inactive">>,
   <<"active", "inactive">>, <<"inactive", "active">>}

\* C12: a record blob appears with status pending, and every later change of
\* its stored status is pending->active, pending->inactive, active->inactive
\* or inactive->active (so no record returns to pending).
C12_StatusFollowsStateMachine ==
  [][\A id \in Ids :
       LET old == store.recs[id]
           new == store'.recs[id]
       IN /\ (old.kind = "empty" /\ new # old) =>
               (new.kind = "json" /\ new.val.status = "pending")
          /\ (old.kind = "json" /\ new # old) =>
               /\ new.kind = "json"
               /\ \/ new.val.status = old.val.status
                  \/ <<old.val.status, new.val.status>> \in StatusTransitions]_vars

\* C13: a stored record blob is never deleted and changes in its status only;
\* a toggle merges the status into the data, timestamp, owner and category it
\* read, and its setData changes neither the key index nor another record.
C13_OnlyStatusChangesAfterCreation ==
  [][/\ \A id \in Ids :
          LET old == store.recs[id]
              new == store'.recs[id]
          IN /\ old.kind # "empty" => new.kind # "empty"
             /\ (old.kind = "json" /\ new # old) =>
                  /\ new.kind = "json"
                  /\ new.val = [old.val EXCEPT !.status = new.val.status]
     /\ \A t \in TaskSlots :
          /\ (MovesInPlace(t) /\ tasks[t].pc = "tog_read") =>
               tasks'[t].blob = [store.recs[tasks[t].id].val EXCEPT
                                   !.status = tasks'[t].blob.status]
          /\ ToggleLands(t) =>
               /\ store'.keys = store.keys
               /\ \A id \in Ids \ {tasks[t].id} : store'.recs[id] = store.recs[id]]_vars

\* C14: a toggle that finds the record blob absent goes no further: it does
\* not reach its setData, and it returns with the store as it was, the
\* banner at error, its dismiss timer set and no reload started.
C14_AbsentRecordFailsToggle ==
  [][\A t \in TaskSlots :
       ( /\ t \in DOMAIN tasks
         /\ tasks[t].pc = "tog_read"
         /\ store.recs[tasks[t].id].kind = "empty" )
       => /\ ~MovesInPlace(t)
          /\ Settles(t) =>
               /\ store' = store
               /\ ErrorShown(t)
               /\ timers'[tasks[t].client] = timers[tasks[t].client] + 1
               /\ isRefreshing' = isRefreshing
               /\ preferences' = preferences]_vars

\* C14 witness: no call has thrown, every row of the page stands for a record
\* that is absent from the store, a toggle was clicked and has returned, and
\* the banner shows the error.
C14_Witness ==
  /\ used.faults = 0
  /\ used.ops > 0
  /\ tasks = <<>>
  /\ preferences["c1"] # <<>>
  /\ \A j \in DOMAIN preferences["c1"] :
       store.recs[preferences["c1"][j].id].kind = "empty"
  /\ transactionStatus["c1"] = Banner("error")

\* C19: a load whose read of the key index returns no bytes or bytes that do
\* not parse issues no record fetch: it returns at once with the in-memory
\* list empty, the refresh flag cleared and the store as it was.
C19_MissingIndexLoadsEmptyList ==
  [][\A t \in TaskSlots :
       ( /\ t \in DOMAIN tasks
         /\ tasks[t].pc = "load_keys"
         /\ store.keys.kind \in {"empty", "corrupt"}
         /\ used' = used )
       => /\ ~MovesInPlace(t)
          /\ Settles(t) =>
               /\ preferences'[tasks[t].client] = <<>>
               /\ ~isRefreshing'[tasks[t].client]
               /\ store' = store]_vars

\* C19 witness: the page showed rows, their records are still stored, the key
\* index does not parse, no call has thrown, and a load has emptied the list.
C19_Witness ==
  /\ store.keys.kind = "corrupt"
  /\ HasRecord(<<"1", "x">>)
  /\ used.faults = 0
  /\ used.ops > 0
  /\ tasks = <<>>
  /\ preferences["c1"] = <<>>

\* the status a toggle of this kind writes, as the specification names it
WrittenStatus(kind) == IF kind = "activate" THEN "active" ELSE "inactive"

\* C15: no toggle write is rejected as stale: a toggle at its setData whose
\* call does not throw lands whatever the store holds by then, stores its own
\* status and reports success; so of two overlapping toggles of a record
\* both report success and the stored status is that of the later write.
C15_OverlappingTogglesLastWriteWins ==
  [][\A t \in TaskSlots :
       ( /\ t \in DOMAIN tasks
         /\ tasks[t].pc = "tog_write"
         /\ used' = used
         /\ MovesInPlace(t) \/ Settles(t) )
       => /\ ToggleLands(t)
          /\ store'.recs[tasks[t].id].val.status = WrittenStatus(tasks[t].kind)
          /\ transactionStatus'[tasks[t].client] = Banner("success")]_vars

\* C15 witness: an activate and a deactivate of one record were in flight
\* together and both have landed; the one clicked first landed last, and the
\* store holds its status, not that of the toggle clicked after it.
C15_Witness ==
  \E t, u \in DOMAIN tasks :
    /\ t < u
    /\ tasks[t].id = tasks[u].id
    /\ {tasks[t].kind, tasks[u].kind} = {"activate", "deactivate"}
    /\ tasks[t].pc \in {"load_keys", "load_rec"}
    /\ tasks[u].pc \in {"load_keys", "load_rec"}
    /\ toggled[tasks[t].id] = <<tasks[u].kind, tasks[t].kind>>
    /\ store.recs[tasks[t].id].val.status = WrittenStatus(tasks[t].kind)

OpKinds == {"submit", "activate", "deactivate"}
LoadPcs == {"load_keys", "load_rec"}

\* the step is the last setData of the action at position t landing
LastWriteLands(t) ==
  /\ MovesInPlace(t)
  /\ \/ /\ tasks[t].pc = "sub_setkeys"
        /\ store'.keys = KeysBlob(tasks[t].keys)
     \/ /\ tasks[t].pc = "tog_write"
        /\ store'.recs[tasks[t].id] = RecBlob(tasks[t].blob)

\* C16: a submit or toggle starts its reload in the step in which its last
\* write lands (the load begins at the key index, after the write), it
\* starts none before that, and one that fails returns with nothing written
\* in that step, the error shown and no reload started.
C16_ReloadFollowsSuccessOnly ==
  [][\A t \in TaskSlots :
       (t \in DOMAIN tasks /\ tasks[t].kind \in OpKinds) =>
         /\ (MovesInPlace(t) /\ tasks[t].pc \in {"sub_setkeys", "tog_write"}) =>
              /\ LastWriteLands(t)
              /\ tasks'[t].pc = "load_keys"
              /\ isRefreshing'[tasks[t].client]
         /\ (MovesInPlace(t) /\ tasks[t].pc \in {"sub_setrec", "sub_getkeys", "tog_read"}) =>
              tasks'[t].pc \notin LoadPcs
         /\ (Settles(t) /\ tasks[t].pc \notin LoadPcs) =>
              /\ store' = store
              /\ isRefreshing' = isRefreshing
              /\ ErrorShown(t)]_vars

\* C16 witness: a submit succeeded and its reload gave the page the row; a
\* toggle of that row has written its status and is at the start of its
\* reload.
C16_Witness ==
  \E t \in DOMAIN tasks :
    /\ tasks[t].kind \in {"activate", "deactivate"}
    /\ tasks[t].pc = "load_keys"
    /\ tasks[t].id \in reported
    /\ store.recs[tasks[t].id].val.status = WrittenStatus(tasks[t].kind)
    /\ isRefreshing[tasks[t].client]

\* the order of the awaits of a handler
AwaitRank(pc) ==
  CASE pc \in {"sub_setrec", "tog_read"} -> 1
    [] pc \in {"sub_getkeys", "tog_write"} -> 2
    [] pc = "sub_setkeys" -> 3
    [] pc = "load_keys" -> 4
    [] pc = "load_rec" -> 5

\* C18: nothing is retried.  An invocation only moves forward through its
\* awaits (the record loop aside), every change of the store is one
\* invocation leaving one of its setData calls, so a submit writes the record
\* key at most once and the index at most once and a toggle writes once; a
\* call that throws in a submit or toggle ends the invocation; and an
\* invocation begins only at a click or at the mount.
C18_NoOperationIsRetried ==
  [][/\ \A t \in TaskSlots :
          MovesInPlace(t) =>
            /\ tasks'[t].kind = tasks[t].kind
            /\ tasks'[t].client = tasks[t].client
            /\ \/ AwaitRank(tasks'[t].pc) > AwaitRank(tasks[t].pc)
               \/ /\ tasks[t].pc = "load_rec"
                  /\ tasks'[t].pc = "load_rec"
                  /\ tasks'[t].i = tasks[t].i + 1
     /\ store' # store =>
          \E t \in DOMAIN tasks :
            /\ MovesInPlace(t)
            /\ tasks[t].pc \in {"sub_setrec", "sub_setkeys", "tog_write"}
     /\ used'.faults > used.faults =>
          \/ \E t \in DOMAIN tasks : Settles(t)
          \/ \E t \in DOMAIN tasks : MovesInPlace(t) /\ tasks[t].pc = "load_keys"
     /\ Len(tasks') > Len(tasks) =>
          /\ Len(tasks') = Len(tasks) + 1
          /\ \/ used'.ops = used.ops + 1
             \/ tasks'[Len(tasks')].kind = "mount"]_vars

\* C18 witness: a submit failed after its record write: the call that threw
\* was not repeated, no invocation is left, the record is stored outside the
\* index, and the banner shows the error.
C18_Witness ==
  /\ used.faults > 0
  /\ tasks = <<>>
  /\ transactionStatus["c1"] = Banner("error")
  /\ \E id \in Ids : HasRecord(id) /\ id \notin Range(ParseKeys(store.keys))

OpInFlight == \E t \in DOMAIN tasks : tasks[t].kind \in OpKinds

\* C17: a submit or toggle that has started settles: eventually no such
\* invocation is in flight.  It ends in one of two ways: out of its reload,
\* which it entered showing the success banner, or out of its try block
\* with the error banner.  The step that ends it is its own, not a click or
\* a wallet event, and a submit that ends leaves creating false.
C17_EveryActionSettles ==
  /\ [][/\ \A t \in TaskSlots :
             (t \in DOMAIN tasks /\ tasks[t].kind \in OpKinds) =>
               /\ (MovesInPlace(t) /\ tasks[t].pc \notin LoadPcs
                                   /\ tasks'[t].pc \in LoadPcs) =>
                    transactionStatus'[tasks[t].client] = Banner("success")
               /\ (MovesInPlace(t) /\ tasks[t].pc \in LoadPcs) =>
                    tasks'[t].pc \in LoadPcs
               /\ Settles(t) =>
                    /\ IF tasks[t].pc \in LoadPcs
                       THEN transactionStatus' = transactionStatus
                       ELSE ErrorShown(t) /\ store' = store
                    /\ tasks[t].kind = "submit" => ~creating'[tasks[t].client]
        /\ Len(tasks') < Len(tasks) =>
             /\ \E t \in DOMAIN tasks : Settles(t)
             /\ used'.ops = used.ops
             /\ used'.wallet = used.wallet
             /\ UNCHANGED <<walletVars, alerts>>]_vars
  /\ OpInFlight ~> ~OpInFlight
  /\ creating["c1"] ~> ~creating["c1"]

\* C17 witness: a submit and a toggle are in flight together, the wallet has
\* been disconnected under them, and one call has thrown.
C17_Witness ==
  /\ \E t, u \in DOMAIN tasks :
       tasks[t].kind = "submit" /\ tasks[u].kind \in {"activate", "deactivate"}
  /\ ~provider["c1"]
  /\ used.faults > 0

\* C20: a submit or toggle that ends in its catch block makes the banner
\* visible with status error and schedules its dismissal; a visible error
\* banner is eventually hidden with no click needed.
C20_ErrorBannerIsTransient ==
  /\ [][\A t \in TaskSlots :
          (Settles(t) /\ tasks[t].kind \in OpKinds /\ tasks[t].pc \notin LoadPcs) =>
            /\ ErrorShown(t)
            /\ transactionStatus'[tasks[t].client].visible
            /\ timers'[tasks[t].client] = timers[tasks[t].client] + 1]_vars
  /\ (transactionStatus["c1"] = Banner("error")) ~> ~transactionStatus["c1"].visible

\* C20 witness: a call threw, the error banner was shown and has been hidden
\* again: nothing is in flight, no timer is left, and the user has clicked
\* once only.
C20_Witness ==
  /\ used.faults > 0
  /\ used.ops = 1
  /\ tasks = <<>>
  /\ timers["c1"] = 0
  /\ ~transactionStatus["c1"].visible

\* C21: a load that ends gives every record it fetched whose blob has no
\* status field a row with status pending, and pendingCount counts those rows
\* together with the rows stored as pending.
C21_MissingStatusLoadsAsPending ==
  [][\A t \in TaskSlots :
       LoadFinishes(t) =>
         LET list == preferences'[tasks[t].client]
             keys == tasks[t].keys
         IN /\ \A n \in DOMAIN keys :
                 ( /\ n \notin tasks[t].failed
                   /\ HasRecord(keys[n])
                   /\ store.recs[keys[n]].val.status = "none" )
                 => \E j \in DOMAIN list :
                      list[j].id = keys[n] /\ list[j].status = "pending"
            /\ \A j \in DOMAIN list :
                 store.recs[list[j].id].val.status = "none" => list[j].status = "pending"
            /\ CountStatus(list, "pending") =
                 Cardinality({j \in DOMAIN list :
                                store.recs[list[j].id].val.status \in {"none", "pending"}})]_vars

\* C21 witness: the page has loaded a record whose stored blob has no status
\* field; its row says pending and pendingCount counts it.
C21_Witness ==
  /\ tasks = <<>>
  /\ ~loading["c1"]
  /\ \E j \in DOMAIN preferences["c1"] :
       /\ store.recs[preferences["c1"][j].id].val.status = "none"
       /\ preferences["c1"][j].status = "pending"
  /\ pendingCount("c1") = Len(preferences["c1"])
  /\ Len(preferences["c1"]) = 2

\* C24: the three counts add up to the length of the in-memory list.
C24_CountsPartitionTheList ==
  \A c \in Clients :
    activeCount(c) + inactiveCount(c) + pendingCount(c) = Len(preferences[c])

\* the rows a load's loop collects from keys when every getData answers from
\* the current store
RECURSIVE FetchAll(_)
FetchAll(keys) ==
  IF keys = <<>> THEN <<>>
  ELSE LET before == FetchAll(SubSeq(keys, 1, Len(keys) - 1))
           key == keys[Len(keys)]
       IN IF HasRecord(key)
          THEN Append(before, ListEntry(key, store.recs[key].val))
          ELSE before

\* what a load of the current store, none of whose calls throws, sets the
\* list to
FreshLoad == SortDesc(FetchAll(ParseKeys(store.keys)))

\* C22: once no load, submit or toggle is in flight on the page, and none of
\* its calls has thrown, the in-memory list is what a fresh load of the
\* current store would produce.
C22_SettledListMatchesStore ==
  ( /\ tasks = <<>>
    /\ ~loading["c1"]
    /\ used.faults = 0 )
  => preferences["c1"] = FreshLoad

\* C23: every record blob a submit has written carries as owner a non-empty
\* account address, and no submit is in flight that captured an empty account.
C23_SubmitOwnerIsConnectedAccount ==
  /\ \A id \in Ids :
       store.recs[id].kind = "json" => store.recs[id].val.owner \in Accounts
  /\ \A t \in DOMAIN tasks :
       tasks[t].kind = "submit" => tasks[t].owner \in Accounts

\* C25: while a submit or toggle of a page is in flight the page's banner is
\* visible: no dismiss timer armed by an earlier action hides it.
C25_BannerVisibleWhileInFlight ==
  \A t \in DOMAIN tasks :
    tasks[t].kind \in OpKinds => transactionStatus[tasks[t].client].visible

====
